---- MODULE Spec2Model ----
(***************************************************************************)
(* A model of rust-redis: the wire values and their serialization          *)
(* (value.rs), the line decoder (socket.rs), the command parser            *)
(* (command.rs), the store with conditional insert and TTL (store.rs) and  *)
(* the per-connection loop over the shared, mutex-guarded store            *)
(* (socket.rs, main.rs).                                                   *)
(*                                                                         *)
(* Text is a sequence of one-character strings, so that lengths, slices    *)
(* and the bytes on the wire are what the code computes.                   *)
(***************************************************************************)
EXTENDS Integers, Sequences, FiniteSets, TLC

CR == "\r"
LF == "\n"
CRLF == <<CR, LF>>

(* ------------------------------------------------------------------ *)
(* Values (value.rs)                                                    *)
(* ------------------------------------------------------------------ *)

\* The variants of enum Value.  StaticSimpleString and StaticError differ from
\* SimpleString and Error only in the ownership of the text, and are written
\* out the same way, so each pair is one variant here.  Integer is used by
\* socket.rs but not declared in value.rs.
Nil == [t |-> "Nil"]
SimpleString(s) == [t |-> "SimpleString", s |-> s]
BulkString(s) == [t |-> "BulkString", s |-> s]
Array(a) == [t |-> "Array", a |-> a]
Error(s) == [t |-> "Error", s |-> s]
Integer(n) == [t |-> "Integer", n |-> n]

Digits == <<"0", "1", "2", "3", "4", "5", "6", "7", "8", "9">>

IsDigit(ch) == \E i \in 1..10 : Digits[i] = ch

DigitVal(ch) == (CHOOSE i \in 1..10 : Digits[i] = ch) - 1

\* Decimal formatting of a number, as `{}` formats a usize or an i64.
RECURSIVE FmtNat(_)
FmtNat(n) == IF n < 10 THEN <<Digits[n + 1]>> ELSE FmtNat(n \div 10) \o <<Digits[(n % 10) + 1]>>

FmtInt(n) == IF n < 0 THEN <<"-">> \o FmtNat(0 - n) ELSE FmtNat(n)

\* The for loop of Display for Value::Array: each element, then CRLF.
RECURSIVE FmtElems(_, _)
\* impl Display for Value.
RECURSIVE Fmt(_)
FmtElem(v, f) == f \o CRLF

FmtElems(a, i) ==
    IF i > Len(a) THEN <<>> ELSE FmtElem(a[i], Fmt(a[i])) \o FmtElems(a, i + 1)

FmtInteger(n) == <<":">> \o FmtInt(n) \o CRLF

Fmt(v) ==
    CASE v.t = "Nil" -> <<"$", "-", "1">> \o CRLF
      [] v.t = "SimpleString" -> <<"+">> \o v.s \o CRLF
      [] v.t = "BulkString" -> <<"$">> \o FmtNat(Len(v.s)) \o CRLF \o v.s \o CRLF
      [] v.t = "Array" -> <<"*">> \o FmtNat(Len(v.a)) \o CRLF \o FmtElems(v.a, 1)
      [] v.t = "Error" -> <<"-">> \o v.s \o CRLF
      [] v.t = "Integer" -> FmtInteger(v.n)

(* ------------------------------------------------------------------ *)
(* The decoder (socket.rs)                                              *)
(* ------------------------------------------------------------------ *)

\* A decoder result: st is "ok" (with the value v), "eof" (read_line read no
\* byte: the connection was closed), "err" (an InvalidInput error) or "panic"
\* (the task panics); rest is the input not yet read.
Ok(v, rest) == [st |-> "ok", v |-> v, rest |-> rest]
Fail(st) == [st |-> st, v |-> Nil, rest |-> <<>>]

\* The index of the last byte read_line reads: the first LF, or the end of
\* the input when the peer closed in the middle of a line.
LineEnd(bytes) ==
    IF \E i \in 1..Len(bytes) : bytes[i] = LF
    THEN CHOOSE i \in 1..Len(bytes) : bytes[i] = LF /\ \A j \in 1..(i - 1) : bytes[j] # LF
    ELSE Len(bytes)

\* Socket::read_line: the line, terminator included, and what follows it.
read_line(bytes) ==
    IF bytes = <<>> THEN [st |-> "eof", line |-> <<>>, rest |-> <<>>]
    ELSE [st |-> "ok", line |-> SubSeq(bytes, 1, LineEnd(bytes)),
          rest |-> SubSeq(bytes, LineEnd(bytes) + 1, Len(bytes))]

RECURSIVE ParseNat(_, _)
ParseNat(s, acc) ==
    IF s = <<>> THEN acc ELSE ParseNat(Tail(s), acc * 10 + DigitVal(Head(s)))

AllDigits(s) == s # <<>> /\ \A i \in 1..Len(s) : IsDigit(s[i])

\* str::parse for a signed integer type (i32 in parse_len, i64 in
\* parse_integer): an optional sign and at least one digit.  The texts of
\* the model are a few digits long: their values fit both types, so the
\* out-of-range error of parse is not met.
ParseSigned(s) ==
    LET body == IF s # <<>> /\ Head(s) \in {"+", "-"} THEN Tail(s) ELSE s
        neg == s # <<>> /\ Head(s) = "-"
    IN IF AllDigits(body)
       THEN [ok |-> TRUE, n |-> IF neg THEN 0 - ParseNat(body, 0) ELSE ParseNat(body, 0)]
       ELSE [ok |-> FALSE, n |-> 0]

\* Socket::parse_len: the text between the type byte and the last two bytes
\* of the line, as an i32.  Slicing [1..len-2] panics when len < 3.
parse_len(line) ==
    IF Len(line) < 3 THEN [st |-> "panic", n |-> 0]
    ELSE LET p == ParseSigned(SubSeq(line, 2, Len(line) - 2))
         IN IF p.ok THEN [st |-> "ok", n |-> p.n] ELSE [st |-> "err", n |-> 0]

\* Socket::parse_bulk_string.  `oc` says whether the build checks integer
\* overflow: buffer.len() - 2 on a line of one byte panics when it does and
\* wraps (so the lengths mismatch) when it does not.
parse_bulk_string(line, rest, oc) ==
    LET l == parse_len(line)
        r == read_line(rest)
    IN IF l.st # "ok" THEN Fail(l.st)
       ELSE IF l.n = -1 THEN Ok(Nil, rest)
       ELSE IF l.n < 0 THEN Fail("err")
       ELSE IF r.st # "ok" THEN Fail(r.st)
       ELSE IF Len(r.line) < 2 THEN (IF oc THEN Fail("panic") ELSE Fail("err"))
       ELSE IF Len(r.line) - 2 # l.n THEN Fail("err")
       ELSE Ok(BulkString(SubSeq(r.line, 1, l.n)), r.rest)

\* Socket::parse_simple_string: buffer[1..len-2].
parse_simple_string(line, rest) ==
    IF Len(line) < 3 THEN Fail("panic")
    ELSE Ok(SimpleString(SubSeq(line, 2, Len(line) - 2)), rest)

RECURSIVE parse_value(_, _)
RECURSIVE ParseElems(_, _, _, _)
\* The for loop of Socket::parse_array: n more values, pushed in order.
ParseElems(n, acc, rest, oc) ==
    IF n = 0 THEN Ok(Array(acc), rest)
    ELSE LET e == parse_value(rest, oc)
         IN IF e.st # "ok" THEN Fail(e.st)
            ELSE ParseElems(n - 1, Append(acc, e.v), e.rest, oc)

\* Socket::parse_array.
parse_array(line, rest, oc) ==
    LET l == parse_len(line)
    IN IF l.st # "ok" THEN Fail(l.st)
       ELSE IF l.n = -1 THEN Ok(Nil, rest)
       ELSE IF l.n < 0 THEN Fail("err")
       ELSE ParseElems(l.n, <<>>, rest, oc)

\* Socket::parse_value: one line, then by its first byte; any byte other
\* than '*', '$' and '+' reaches todo!(), which panics.
parse_value(bytes, oc) ==
    LET r == read_line(bytes)
    IN IF r.st # "ok" THEN Fail(r.st)
       ELSE CASE r.line[1] = "*" -> parse_array(r.line, r.rest, oc)
              [] r.line[1] = "$" -> parse_bulk_string(r.line, r.rest, oc)
              [] r.line[1] = "+" -> parse_simple_string(r.line, r.rest)
              [] OTHER -> Fail("panic")

(* ------------------------------------------------------------------ *)
(* Commands (command.rs)                                                *)
(* ------------------------------------------------------------------ *)

None == <<>>
Some(x) == <<x>>

T_PING == <<"P", "I", "N", "G">>
T_ping == <<"p", "i", "n", "g">>
T_ECHO == <<"E", "C", "H", "O">>
T_echo == <<"e", "c", "h", "o">>
T_GET == <<"G", "E", "T">>
T_get == <<"g", "e", "t">>
T_SET == <<"S", "E", "T">>
T_set == <<"s", "e", "t">>
T_EXISTS == <<"E", "X", "I", "S", "T", "S">>
T_XX == <<"X", "X">>
T_xx == <<"x", "x">>
T_NX == <<"N", "X">>
T_nx == <<"n", "x">>
T_EX == <<"E", "X">>
T_ex == <<"e", "x">>
T_PX == <<"P", "X">>
T_px == <<"p", "x">>
T_EXAT == <<"E", "X", "A", "T">>
T_exat == <<"e", "x", "a", "t">>
T_PXAT == <<"P", "X", "A", "T">>
T_pxat == <<"p", "x", "a", "t">>
T_KEEPTTL == <<"K", "E", "E", "P", "T", "T", "L">>
T_keepttl == <<"k", "e", "e", "p", "t", "t", "l">>
T_OK == <<"O", "K">>
T_PONG == <<"P", "O", "N", "G">>

MSG_NOT_INTEGER ==
    <<"v", "a", "l", "u", "e", " ", "i", "s", " ", "n", "o", "t", " ", "a", "n", " ", "i", "n", "t", "e", "g", "e", "r", " ", "o", "r", " ", "o", "u", "t", " ", "o", "f", " ", "r", "a", "n", "g", "e">>
MSG_INVALID_EXPIRE ==
    <<"i", "n", "v", "a", "l", "i", "d", " ", "e", "x", "p", "i", "r", "e", " ", "t", "i", "m", "e", " ", "i", "n", " ", "'", "s", "e", "t", "'", " ", "c", "o", "m", "m", "a", "n", "d">>
MSG_SYNTAX ==
    <<"s", "y", "n", "t", "a", "x", " ", "e", "r", "r", "o", "r">>
MSG_UNKNOWN ==
    <<"u", "n", "k", "n", "o", "w", "n", " ", "c", "o", "m", "m", "a", "n", "d", " ", "'">>
MSG_WRONG_ARGS ==
    <<"w", "r", "o", "n", "g", " ", "n", "u", "m", "b", "e", "r", " ", "o", "f", " ", "a", "r", "g", "u", "m", "e", "n", "t", "s", " ", "f", "o", "r", " ", "'">>
MSG_COMMAND ==
    <<"'", " ", "c", "o", "m", "m", "a", "n", "d">>

\* Value::as_str and TryInto<String>: the text of a bulk or simple string.
IsText(v) == v.t \in {"BulkString", "SimpleString"}

\* enum SetExpirationMode (and store.rs's ExpirationMode, which has the same
\* variants): the kind and, for the four timed kinds, the amount.
ExpNormal == [kind |-> "Normal", n |-> 0]
ExpKeepTTL == [kind |-> "KeepTTL", n |-> 0]

\* SetExpirationMode::from.
ExpFrom(kind, amount) ==
    CASE kind \in {T_EX, T_ex} -> [kind |-> "ExpirySeconds", n |-> amount]
      [] kind \in {T_PX, T_px} -> [kind |-> "ExpiryMilliseconds", n |-> amount]
      [] kind \in {T_EXAT, T_exat} -> [kind |-> "ExpiryUTCSeconds", n |-> amount]
      [] kind \in {T_PXAT, T_pxat} -> [kind |-> "ExpiryUTCMilliseconds", n |-> amount]
      [] kind \in {T_KEEPTTL, T_keepttl} -> ExpKeepTTL
      [] OTHER -> ExpNormal

\* enum Command.  Exists is dispatched by socket.rs but is not a variant of
\* the enum in command.rs.
CmdPing(m) == [op |-> "Ping", arg |-> m]
CmdEcho(v) == [op |-> "Echo", arg |-> v]
CmdGet(k) == [op |-> "Get", key |-> k]
CmdSet(k, v, ins, exp, ret) ==
    [op |-> "Set", key |-> k, value |-> v, insertion_mode |-> ins,
     expiration_mode |-> exp, return_mode |-> ret]
CmdExists(ks) == [op |-> "Exists", keys |-> ks]
CmdError(v) == [op |-> "Error", arg |-> v]

\* Command::build_error.
build_error(message) == CmdError(Error(message))

\* Command::parse_integer: the text as an i64.
parse_integer(text) == ParseSigned(text)

ExpiryKinds == {T_EX, T_PX, T_EXAT, T_PXAT, T_ex, T_px, T_exat, T_pxat}

\* An insertion flag arm without its guard.
InsertionAlways(ins) == TRUE

\* The guard of the two insertion flag arms: insertion_mode.is_normal().
InsertionUndecided(ins) == ins = "Normal"

\* The guard of the expiration flag arms: expiration_mode.is_normal().
ExpirationUndecided(exp) == exp.kind = "Normal"

\* A guard that lets a zero amount through: `num >= 0`.
ExpiryAmountOkZero(num) == num >= 0

\* The amount an expiration flag accepts: `Ok(num) if num > 0`.
ExpiryAmountOk(num) == num > 0

\* The while loop of Command::parse_set_command over the arguments after the
\* key and the value, from position i on.
RECURSIVE ScanFlags(_, _, _, _, _, _, _)
ScanFlags(key, value, flags, i, ins, exp, ret) ==
    IF i > Len(flags) \/ flags[i].t # "BulkString"
    THEN CmdSet(key, value, ins, exp, ret)
    ELSE LET tok == flags[i].s IN
         CASE tok \in {T_XX, T_xx} /\ InsertionUndecided(ins) ->
                  ScanFlags(key, value, flags, i + 1, "IfExists", exp, ret)
           [] tok \in {T_NX, T_nx} /\ InsertionUndecided(ins) ->
                  ScanFlags(key, value, flags, i + 1, "IfNotExists", exp, ret)
           [] tok \in ExpiryKinds /\ ExpirationUndecided(exp) ->
                  IF i + 1 <= Len(flags) /\ flags[i + 1].t = "BulkString"
                  THEN LET p == parse_integer(flags[i + 1].s) IN
                       IF p.ok /\ ExpiryAmountOk(p.n)
                       THEN ScanFlags(key, value, flags, i + 2, ins, ExpFrom(tok, p.n), ret)
                       ELSE IF p.ok THEN build_error(MSG_INVALID_EXPIRE)
                       ELSE build_error(MSG_NOT_INTEGER)
                  ELSE build_error(MSG_SYNTAX)
           [] tok = T_KEEPTTL /\ ExpirationUndecided(exp) ->
                  ScanFlags(key, value, flags, i + 1, ins, ExpKeepTTL, ret)
           [] tok = T_GET -> ScanFlags(key, value, flags, i + 1, ins, exp, TRUE)
           [] OTHER -> build_error(MSG_SYNTAX)

\* Command::parse_set_command: None (here <<>>) when fewer than two arguments
\* follow the name.
parse_set_command(args) ==
    IF Len(args) < 2 THEN None
    ELSE Some(ScanFlags(args[1], args[2], SubSeq(args, 3, Len(args)), 1,
                        "Normal", ExpNormal, FALSE))

\* The arm of Command::try_from for EXISTS: every argument is a key.
parse_exists_command(args) == Some(CmdExists(args))

\* Whether the name is EXISTS in some letter case.
IsExistsName(name) ==
    /\ Len(name) = Len(T_EXISTS)
    /\ \A i \in 1..Len(name) :
          name[i] \in {T_EXISTS[i], <<"e", "x", "i", "s", "t", "s">>[i]}

\* The unknown-command message without its closing quote.
UnknownCommandBare(name) == CmdError(Error(MSG_UNKNOWN \o name))

\* The arm of Command::try_from for a name that is no command.
UnknownCommand(name) == CmdError(Error(MSG_UNKNOWN \o name \o <<"'">>))

\* impl TryFrom<Value> for Command: [st |-> "ok", cmd |-> the command], or
\* st "err" (into_array or as_str failed) or "panic" (unwrap on an empty array).
TryFrom(value) ==
    IF value.t # "Array" THEN [st |-> "err", cmd |-> None]
    ELSE IF value.a = <<>> THEN [st |-> "panic", cmd |-> None]
    ELSE IF ~IsText(value.a[1]) THEN [st |-> "err", cmd |-> None]
    ELSE LET name == value.a[1].s
             args == Tail(value.a)
             command == CASE name \in {T_PING, T_ping} ->
                               (IF Len(args) = 0 THEN Some(CmdPing(None))
                                ELSE IF Len(args) = 1 THEN Some(CmdPing(Some(args[1])))
                                ELSE None)
                          [] name \in {T_ECHO, T_echo} ->
                               (IF Len(args) = 1 THEN Some(CmdEcho(args[1])) ELSE None)
                          [] name \in {T_GET, T_get} ->
                               (IF Len(args) = 1 THEN Some(CmdGet(args[1])) ELSE None)
                          [] name \in {T_SET, T_set} -> parse_set_command(args)
                          [] IsExistsName(name) -> parse_exists_command(args)
                          [] OTHER -> Some(UnknownCommand(name))
         IN IF command # None THEN [st |-> "ok", cmd |-> command]
            ELSE [st |-> "ok",
                  cmd |-> Some(CmdError(Error(MSG_WRONG_ARGS \o name \o MSG_COMMAND)))]

\* Socket::parse_command: one value off the wire, then the command in it.
parse_command(bytes, oc) ==
    LET d == parse_value(bytes, oc)
    IN IF d.st # "ok" THEN [st |-> d.st, cmd |-> None]
       ELSE TryFrom(d.v)

(* ------------------------------------------------------------------ *)
(* The store (store.rs)                                                 *)
(* ------------------------------------------------------------------ *)

\* struct Entry: expires_at is None or Some(milliseconds since the epoch).
Entry(value, expires_at) == [value |-> value, expires_at |-> expires_at]

\* Entry::from.
EntryFrom(value) == Entry(value, None)

\* The comparison with `>=`: an entry still valid at its expiry instant.
NotYetOrNow(time, now) == time >= now

\* The comparison of Entry::is_valid: `time > now()`.
NotYet(time, now) == time > now

\* Entry::is_valid, with the value now() returns when it is called.
is_valid(entry, now) ==
    IF entry.expires_at # None THEN NotYet(entry.expires_at[1], now) ELSE TRUE

\* Entry::get and Entry::consume: the value of an entry that is valid.
EntryGet(entry, now) == IF is_valid(entry, now) THEN Some(entry.value) ELSE None

\* Store::get.
StoreGet(m, key, now) == IF key \in DOMAIN m THEN EntryGet(m[key], now) ELSE None

\* A has_entry that asks only whether the map has the key.
has_entryAny(m, key, now) == key \in DOMAIN m

\* Store::has_entry.
has_entry(m, key, now) == StoreGet(m, key, now) # None

\* An insert that leaves the map with this one key.
MapInsertAlone(m, key, entry) == [k \in {key} |-> entry]

\* HashMap::insert: the map with the key bound to the entry.
MapInsert(m, key, entry) ==
    [k \in DOMAIN m \cup {key} |-> IF k = key THEN entry ELSE m[k]]

\* A new entry that takes over the expiry of the entry it replaces unless
\* the request names one.
NewExpiryInherits(expiration_mode, current, now) ==
    CASE expiration_mode.kind = "ExpiryMilliseconds" -> Some(expiration_mode.n + now)
      [] expiration_mode.kind = "ExpirySeconds" -> Some(expiration_mode.n * 1000 + now)
      [] expiration_mode.kind = "ExpiryUTCMilliseconds" -> Some(expiration_mode.n)
      [] expiration_mode.kind = "ExpiryUTCSeconds" -> Some(expiration_mode.n * 1000)
      [] OTHER -> (IF current # None THEN current[1].expires_at ELSE None)

\* A new entry that never takes over an expiry: KEEPTTL as no flag.
NewExpiryForgets(expiration_mode, current, now) ==
    CASE expiration_mode.kind = "ExpiryMilliseconds" -> Some(expiration_mode.n + now)
      [] expiration_mode.kind = "ExpirySeconds" -> Some(expiration_mode.n * 1000 + now)
      [] expiration_mode.kind = "ExpiryUTCMilliseconds" -> Some(expiration_mode.n)
      [] expiration_mode.kind = "ExpiryUTCSeconds" -> Some(expiration_mode.n * 1000)
      [] OTHER -> None

\* The match on expiration_mode in Store::insert: the new entry's expires_at.
\* `current` is the map's entry for the key (None when it has none) and `now`
\* the value of now() in the two arms that call it.
NewExpiry(expiration_mode, current, now) ==
    CASE expiration_mode.kind = "Normal" -> None
      [] expiration_mode.kind = "ExpiryMilliseconds" -> Some(expiration_mode.n + now)
      [] expiration_mode.kind = "ExpirySeconds" -> Some(expiration_mode.n * 1000 + now)
      [] expiration_mode.kind = "ExpiryUTCMilliseconds" -> Some(expiration_mode.n)
      [] expiration_mode.kind = "ExpiryUTCSeconds" -> Some(expiration_mode.n * 1000)
      [] expiration_mode.kind = "KeepTTL" ->
             (IF current # None /\ current[1].expires_at # None
              THEN current[1].expires_at ELSE None)

\* A match on insertion_mode that writes the map whatever entry_exists is.
ProceedsAlways(insertion_mode, entry_exists) == TRUE

\* The match on insertion_mode in Store::insert: whether the map is written.
Proceeds(insertion_mode, entry_exists) ==
    \/ insertion_mode = "Normal"
    \/ insertion_mode = "IfNotExists" /\ ~entry_exists
    \/ insertion_mode = "IfExists" /\ entry_exists

\* `let current = self.map.get(&key)` in Store::insert.
Current(m, key) == IF key \in DOMAIN m THEN Some(m[key]) ELSE None

\* An entry_exists that asks only whether the map has the key.
EntryPresent(current, now) == current # None

\* `let entry_exists = ...` in Store::insert, with the value of now().
EntryExists(current, now) == IF current # None THEN is_valid(current[1], now) ELSE FALSE

\* A consume that hands out the value of the replaced entry, valid or not.
PreviousAny(current, now) == IF current # None THEN Some(current[1].value) ELSE None

\* The end of Store::insert: consume of the entry HashMap::insert returned,
\* with the value of now().
Previous(current, now) == IF current # None THEN EntryGet(current[1], now) ELSE None

\* A reply that is OK for every result of insert.
SetReplyOk(ok, result, return_mode) == SimpleString(T_OK)

\* The match on the result of insert in Socket::set: the reply.
\* `ok` is FALSE for Err(()), and `result` is the Option<Value> inside Ok.
SetReply(ok, result, return_mode) ==
    IF ok /\ return_mode THEN (IF result # None THEN result[1] ELSE Nil)
    ELSE IF ok THEN SimpleString(T_OK)
    ELSE Nil

(* ------------------------------------------------------------------ *)
(* Bounds and inputs                                                    *)
(* ------------------------------------------------------------------ *)

\* How many times the clock is seen to advance in one behaviour.
MaxTicks == 2
\* How far the clock advances at once, in milliseconds: by one, or to one
\* millisecond short of a second, so that both sides of an expiry are met.
Jumps == {1, 999}
\* The connections of the NX race.
NumRacers == 3
\* The depth of the value trees that are serialized and decoded.
MaxDepth == 2

Conns == {1}
Racers == 1..NumRacers

Ka == <<"a">>
Kb == <<"b">>
Vv == BulkString(<<"v">>)
Vw == BulkString(<<"w">>)
B(text) == BulkString(text)

\* What a client puts on the wire for a value (spec, section 6): an array is
\* its header and then its elements, one after the other.
RECURSIVE Wire(_)
RECURSIVE WireElems(_, _)
WireElems(a, i) == IF i > Len(a) THEN <<>> ELSE Wire(a[i]) \o WireElems(a, i + 1)

Wire(v) ==
    CASE v.t = "Nil" -> <<"$", "-", "1">> \o CRLF
      [] v.t = "SimpleString" -> <<"+">> \o v.s \o CRLF
      [] v.t = "BulkString" -> <<"$">> \o FmtNat(Len(v.s)) \o CRLF \o v.s \o CRLF
      [] v.t = "Array" -> <<"*">> \o FmtNat(Len(v.a)) \o CRLF \o WireElems(v.a, 1)
      [] v.t = "Error" -> <<"-">> \o v.s \o CRLF
      [] v.t = "Integer" -> <<":">> \o FmtInt(v.n) \o CRLF

\* A request: the command name and its arguments, in an array.
Req(name, args) == Array(<<B(name)>> \o args)

\* Flag lists that SET accepts: an insertion flag, an expiration flag and GET.
InsFlags == {<<>>, <<B(T_NX)>>, <<B(T_XX)>>}
ExpFlags == {<<>>, <<B(T_PX), B(<<"1">>)>>, <<B(T_EX), B(<<"1">>)>>, <<B(T_KEEPTTL)>>}
GetFlags == {<<>>, <<B(T_GET)>>}
GoodFlagLists ==
    {i \o e \o g : i \in InsFlags, e \in ExpFlags, g \in GetFlags}
    \cup {<<B(T_GET), B(T_xx)>>, <<B(T_px), B(<<"1">>), B(T_nx)>>}

\* Flag lists that SET rejects, and two (the last ones) with an argument that
\* is no bulk string.
BadFlagLists ==
    { <<B(T_EX), B(<<"x">>)>>, <<B(T_PX), B(<<"1", "x">>)>>, <<B(T_EXAT), B(<<>>)>>,
      <<B(T_EX), B(<<"0">>)>>, <<B(T_PXAT), B(<<"-", "1">>)>>,
      <<B(T_EX)>>, <<B(T_NX), B(T_PX)>>,
      <<B(T_NX), B(T_XX)>>, <<B(T_NX), B(T_NX)>>, <<B(T_KEEPTTL), B(T_EX), B(<<"1">>)>>,
      <<B(T_EX), B(<<"1">>), B(T_PX), B(<<"1">>)>>, <<B(<<"Z">>)>>,
      <<B(T_GET), B(T_GET), B(<<"1">>)>>, <<B(T_NX), B(T_EX), B(<<"x">>)>>,
      <<B(T_EX), SimpleString(<<"1">>)>>, <<B(T_EX), Nil>> }

\* Flag lists with an argument that is no bulk string and more arguments
\* behind it, and one that has GET three times around an insertion flag.
OddFlagLists ==
    { <<Nil>>, <<B(T_NX), SimpleString(<<"Z">>), B(T_XX)>>, <<Array(<<>>), B(<<"Z">>)>>,
      <<B(T_KEEPTTL), Nil, B(T_PX), B(<<"1">>)>>,
      <<B(T_GET), B(T_NX), B(T_GET), B(T_GET)>> }

\* SET requests with the name or a flag in another letter case than the
\* two that command.rs spells out.
CaseRequests ==
    { Req(<<"s", "E", "t">>, <<B(Ka), Vw>>),
      Req(T_SET, <<B(Ka), Vw, B(T_keepttl)>>),
      Req(T_SET, <<B(Ka), Vv, B(T_get)>>),
      Req(T_SET, <<B(Ka), Vv, B(<<"N", "x">>)>>) }

SetRequests ==
    {Req(T_SET, <<B(Ka), Vv>> \o f) : f \in GoodFlagLists \cup BadFlagLists \cup OddFlagLists}
    \cup {Req(T_SET, <<B(Ka), Vw>> \o i \o e \o g) :
             i \in InsFlags, e \in {<<>>, <<B(T_KEEPTTL)>>}, g \in GetFlags}
    \cup { Req(T_SET, <<B(Ka), Vv, B(T_PXAT), B(<<"1", "0", "0", "0">>)>>),
           Req(T_SET, <<B(Ka), Vw, B(T_EXAT), B(<<"1">>)>>),
           Req(T_SET, <<B(Kb), Vw>>),
           Req(T_set, <<SimpleString(Kb), Vw>>),
           Req(T_SET, <<Nil, Vv>>),
           Req(T_SET, <<B(Ka)>>) }
    \cup CaseRequests

OtherRequests ==
    { Req(T_PING, <<>>), Req(T_ping, <<Vv>>), Req(T_PING, <<Vv, Vw>>),
      Req(T_ECHO, <<Vv>>), Req(T_echo, <<Array(<<Vv, Nil>>)>>), Req(T_ECHO, <<>>),
      Req(<<"F", "O", "O">>, <<B(<<"b", "a", "r">>)>>), Req(<<"f", "o">>, <<>>),
      Req(<<"P", "i", "n", "g">>, <<>>),
      Req(T_GET, <<B(Ka)>>), Req(T_get, <<B(Kb)>>), Req(T_GET, <<>>),
      Req(T_GET, <<Nil>>),
      Req(T_EXISTS, <<B(Ka), B(Kb), B(Ka)>>), Req(T_EXISTS, <<B(Kb)>>),
      Req(T_EXISTS, <<>>), Req(T_EXISTS, <<B(Ka), Nil>>),
      Array(<<>>), Array(<<Nil, Vv>>), Vv, Nil }

\* Inputs that are no well-formed value: an unknown type byte, a length
\* that is no number, a bulk string shorter than announced, a negative
\* length, a line cut short, and the end of the stream.
Malformed ==
    { <<":", "1">> \o CRLF, <<"*", "x">> \o CRLF, <<"$", "2">> \o CRLF \o <<"a">> \o CRLF,
      <<"*", "-", "2">> \o CRLF, <<"$", "1">> \o CRLF \o <<LF>>, <<"*", LF>>,
      <<"*", "1">> \o CRLF \o <<"-", "e">> \o CRLF, <<>> }

\* The requests of the NX race: SET a <c> NX, with GET or without.
RaceValue(c) == B(<<Digits[c + 1]>>)
RaceRequests(c) == {Req(T_SET, <<B(Ka), RaceValue(c), B(T_NX)>> \o g) : g \in GetFlags}

Requests == SetRequests \cup OtherRequests \cup UNION {RaceRequests(c) : c \in Racers}

\* Each request with its bytes.
Sent == {[req |-> r, bytes |-> Wire(r)] : r \in Requests}
WireOf(r) == (CHOOSE e \in Sent : e.req = r).bytes

\* What a connection may read in one turn of its loop.
Inputs == {WireOf(r) : r \in SetRequests \cup OtherRequests} \cup Malformed
RaceInputs(c) == {e.bytes : e \in {x \in Sent : x.req \in RaceRequests(c)}}

\* What parse_command makes of each input, in a build with overflow checks
\* (oc TRUE) and in one without.
ParseTable ==
    {[bytes |-> w, oc |-> oc, o |-> parse_command(w, oc)] :
        w \in {e.bytes : e \in Sent} \cup Malformed, oc \in BOOLEAN}

(* ------------------------------------------------------------------ *)
(* State                                                                *)
(* ------------------------------------------------------------------ *)

VARIABLES
    map,       \* Store.map: key -> Entry, for the keys that have an entry
    lock,      \* the Mutex around the store: 0, or the connection that holds it
    clock,     \* what now() returns, in milliseconds
    ticks,     \* how many times the clock has advanced
    pc,        \* per connection: "closed", "read", "locked" or "write"
    cmd,       \* per connection: the command being dispatched under the lock
    loc,       \* per connection: the local variables of its call into the store
    out,       \* per connection: Socket.output_buffer
    res,       \* per connection: what Store::insert returned to its last command
    prev,      \* per connection: the previous value inside that result, if any
    ser,       \* per connection: the serialization of its last command's result
    exit,      \* per connection: why its last handler ended
    inp,       \* per connection: the bytes its current command was read from
    afterUnknown,  \* per connection: its last reply was "unknown command"
    lastSet,   \* per key: the insert that wrote its entry, and the clock it read
    cphase, cval, cwire, cdec   \* the codec: a value, its bytes, the decoder's result

cvars == <<cphase, cval, cwire, cdec>>
vars == <<map, lock, clock, ticks, pc, cmd, loc, out, res, prev, ser, exit, inp, afterUnknown,
          lastSet, cphase, cval, cwire, cdec>>

NoCmd == [op |-> "None"]
NoLoc == [at |-> "none"]
EmptyMap == [k \in {} |-> 0]

CodecIdle ==
    /\ cphase = "off"
    /\ cval = Nil
    /\ cwire = <<>>
    /\ cdec = Fail("eof")

\* Store::new and main before the first accept, at time 0.
StoreInit(conns) ==
    /\ map = EmptyMap
    /\ lastSet = EmptyMap
    /\ lock = 0
    /\ clock = 0
    /\ ticks = 0
    /\ pc = [c \in conns |-> "closed"]
    /\ cmd = [c \in conns |-> NoCmd]
    /\ loc = [c \in conns |-> NoLoc]
    /\ out = [c \in conns |-> <<>>]
    /\ res = [c \in conns |-> "none"]
    /\ prev = [c \in conns |-> None]
    /\ ser = [c \in conns |-> <<>>]
    /\ exit = [c \in conns |-> "none"]
    /\ inp = [c \in conns |-> <<>>]
    /\ afterUnknown = [c \in conns |-> FALSE]

Init == StoreInit(Conns) /\ CodecIdle

(* ------------------------------------------------------------------ *)
(* Actions                                                              *)
(* ------------------------------------------------------------------ *)

\* main: accept a connection and spawn its task, which enters run's loop
\* (output_buffer is cleared at the top of the loop).
Accept(c) ==
    /\ pc[c] = "closed"
    /\ pc' = [pc EXCEPT ![c] = "read"]
    /\ out' = [out EXCEPT ![c] = <<>>]
    /\ res' = [res EXCEPT ![c] = "none"]
    /\ prev' = [prev EXCEPT ![c] = None]
    /\ ser' = [ser EXCEPT ![c] = <<>>]
    /\ exit' = [exit EXCEPT ![c] = "none"]
    /\ inp' = [inp EXCEPT ![c] = <<>>]
    /\ afterUnknown' = [afterUnknown EXCEPT ![c] = FALSE]
    /\ UNCHANGED <<map, lock, clock, ticks, cmd, loc, lastSet, cvars>>

\* Time goes by.
Tick ==
    /\ ticks < MaxTicks
    /\ \E j \in Jumps : clock' = clock + j
    /\ ticks' = ticks + 1
    /\ UNCHANGED <<map, lock, pc, cmd, loc, out, res, prev, ser, exit, inp, afterUnknown, lastSet, cvars>>

\* write!(&mut self.output_buffer, ...): the text goes behind what the
\* buffer holds.
Appended(buffer, text) == buffer \o text

\* A clear() that leaves the buffer as it is.
KeptBuffer(buffer) == buffer

\* self.output_buffer.clear() at the top of the loop of run.
ClearedBuffer(buffer) == <<>>

\* What run writes into output_buffer for a command that needs no store.
DirectReply(command) ==
    IF command.op = "Ping" /\ command.arg = None THEN SimpleString(T_PONG)
    ELSE IF command.op = "Ping" THEN command.arg[1]
    ELSE command.arg

\* Whether set() returns before it locks: key.try_into() fails.
SetKeyFails(command) == command.op = "Set" /\ ~IsText(command.key)

\* run, from the top of the loop to the write, for an input that needs no
\* store: parse_command fails (the handler ends), or the command is Echo,
\* Ping or Error (the reply is buffered), or it is a Set whose key is no text
\* (set returns the error before it locks).
Recv(c, inputs) ==
    /\ pc[c] = "read"
    /\ \E e \in ParseTable :
         LET o == e.o
         IN /\ e.bytes \in inputs
            /\ o.st = "ok" => o.cmd[1].op \in {"Ping", "Echo", "Error"} \/ SetKeyFails(o.cmd[1])
            /\ inp' = [inp EXCEPT ![c] = e.bytes]
            /\ IF o.st = "ok" /\ ~SetKeyFails(o.cmd[1])
               THEN /\ out' = [out EXCEPT ![c] = Appended(out[c], Fmt(DirectReply(o.cmd[1])))]
                    /\ ser' = [ser EXCEPT ![c] = Fmt(DirectReply(o.cmd[1]))]
                    /\ pc' = [pc EXCEPT ![c] = "write"]
                    /\ exit' = exit
               ELSE /\ out' = out
                    /\ ser' = [ser EXCEPT ![c] = <<>>]
                    /\ pc' = [pc EXCEPT ![c] = "closed"]
                    /\ exit' = [exit EXCEPT ![c] = IF o.st = "ok" THEN "err" ELSE o.st]
    /\ res' = [res EXCEPT ![c] = "none"]
    /\ prev' = [prev EXCEPT ![c] = None]
    /\ UNCHANGED <<map, lock, clock, ticks, cmd, loc, afterUnknown, lastSet, cvars>>

\* A lock() that returns whether or not the mutex is held.
CanLockAlways(l) == TRUE

\* Whether cache.lock() returns: the mutex is not held.
CanLock(l) == l = 0

\* run, from the top of the loop to cache.lock() in fetch, set or exists: the
\* command is decoded and the lock, which is free, is taken.  A task that
\* finds the lock held waits in lock(); it has touched nothing shared by
\* then, so its wait is not a state of its own.
RecvLock(c, inputs) ==
    /\ pc[c] = "read"
    /\ CanLock(lock)
    /\ \E e \in ParseTable :
         LET o == e.o
         IN /\ e.bytes \in inputs
            /\ o.st = "ok"
            /\ o.cmd[1].op \in {"Get", "Set", "Exists"}
            /\ ~SetKeyFails(o.cmd[1])
            /\ inp' = [inp EXCEPT ![c] = e.bytes]
            /\ cmd' = [cmd EXCEPT ![c] = o.cmd[1]]
            /\ loc' = [loc EXCEPT ![c] = IF o.cmd[1].op = "Exists"
                                         THEN [at |-> "loop", i |-> 1, count |-> 0, t0 |-> clock]
                                         ELSE [at |-> "start"]]
    /\ lock' = c
    /\ pc' = [pc EXCEPT ![c] = "locked"]
    /\ res' = [res EXCEPT ![c] = "none"]
    /\ prev' = [prev EXCEPT ![c] = None]
    /\ ser' = [ser EXCEPT ![c] = <<>>]
    /\ UNCHANGED <<map, clock, ticks, out, exit, afterUnknown, lastSet, cvars>>

\* Leaving the store with the guard still held.
LeaveKeepsLock(c, ok, reply) ==
    /\ lock' = lock
    /\ cmd' = [cmd EXCEPT ![c] = NoCmd]
    /\ loc' = [loc EXCEPT ![c] = NoLoc]
    /\ pc' = [pc EXCEPT ![c] = IF ok THEN "write" ELSE "closed"]
    /\ out' = [out EXCEPT ![c] = IF ok THEN Appended(out[c], Fmt(reply)) ELSE out[c]]
    /\ ser' = [ser EXCEPT ![c] = IF ok THEN Fmt(reply) ELSE <<>>]
    /\ exit' = [exit EXCEPT ![c] = IF ok THEN exit[c] ELSE "err"]

\* Leaving the store with the guard dropped only when there is a reply.
LeaveHoldsOnError(c, ok, reply) ==
    /\ lock' = IF lock = c /\ ok THEN 0 ELSE lock
    /\ cmd' = [cmd EXCEPT ![c] = NoCmd]
    /\ loc' = [loc EXCEPT ![c] = NoLoc]
    /\ pc' = [pc EXCEPT ![c] = IF ok THEN "write" ELSE "closed"]
    /\ out' = [out EXCEPT ![c] = IF ok THEN Appended(out[c], Fmt(reply)) ELSE out[c]]
    /\ ser' = [ser EXCEPT ![c] = IF ok THEN Fmt(reply) ELSE <<>>]
    /\ exit' = [exit EXCEPT ![c] = IF ok THEN exit[c] ELSE "err"]

\* The connection leaves fetch, set or exists: the guard is dropped, and
\* either the reply is in output_buffer or the handler ends with the error.
Leave(c, ok, reply) ==
    /\ lock' = IF lock = c THEN 0 ELSE lock
    /\ cmd' = [cmd EXCEPT ![c] = NoCmd]
    /\ loc' = [loc EXCEPT ![c] = NoLoc]
    /\ pc' = [pc EXCEPT ![c] = IF ok THEN "write" ELSE "closed"]
    /\ out' = [out EXCEPT ![c] = IF ok THEN Appended(out[c], Fmt(reply)) ELSE out[c]]
    /\ ser' = [ser EXCEPT ![c] = IF ok THEN Fmt(reply) ELSE <<>>]
    /\ exit' = [exit EXCEPT ![c] = IF ok THEN exit[c] ELSE "err"]

\* Socket::fetch under the lock: key.as_str(), store.get, the reply.
Fetch(c) ==
    /\ pc[c] = "locked"
    /\ cmd[c].op = "Get"
    /\ LET got == IF IsText(cmd[c].key) THEN StoreGet(map, cmd[c].key.s, clock) ELSE None
       IN Leave(c, IsText(cmd[c].key), IF got # None THEN got[1] ELSE Nil)
    /\ UNCHANGED <<map, clock, ticks, res, prev, inp, afterUnknown, lastSet, cvars>>

\* Store::insert, from its start to the end of the match on expiration_mode:
\* the new entry's expires_at.
SetExpiry(c) ==
    /\ pc[c] = "locked"
    /\ cmd[c].op = "Set"
    /\ loc[c].at = "start"
    /\ loc' = [loc EXCEPT ![c] =
                 [at |-> "expiry", now |-> clock,
                  expires_at |-> NewExpiry(cmd[c].expiration_mode,
                                           Current(map, cmd[c].key.s), clock)]]
    /\ UNCHANGED <<map, lock, clock, ticks, pc, cmd, out, res, prev, ser, exit, inp, afterUnknown, lastSet, cvars>>

\* Store::insert: entry_exists.
SetExists(c) ==
    /\ pc[c] = "locked"
    /\ cmd[c].op = "Set"
    /\ loc[c].at = "expiry"
    /\ loc' = [loc EXCEPT ![c] =
                 [at |-> "exists", now |-> loc[c].now, expires_at |-> loc[c].expires_at,
                  entry_exists |-> EntryExists(Current(map, cmd[c].key.s), clock)]]
    /\ UNCHANGED <<map, lock, clock, ticks, pc, cmd, out, res, prev, ser, exit, inp, afterUnknown, lastSet, cvars>>

\* What lastSet keeps of an insert that proceeded: the value, the expiration
\* mode and, for the two modes that add to now(), the value now() returned.
Written(value, mode, now) ==
    [value |-> value, mode |-> mode,
     at |-> IF mode.kind \in {"ExpirySeconds", "ExpiryMilliseconds"} THEN now ELSE 0]

\* Store::insert from the match on insertion_mode to its end, and the rest
\* of Socket::set: the map is written or not, the previous entry is
\* consumed, the reply is buffered and the guard dropped.
SetInsert(c) ==
    /\ pc[c] = "locked"
    /\ cmd[c].op = "Set"
    /\ loc[c].at = "exists"
    /\ LET key == cmd[c].key.s
           ok == Proceeds(cmd[c].insertion_mode, loc[c].entry_exists)
           previous == Previous(Current(map, key), clock)
       IN /\ map' = IF ok THEN MapInsert(map, key, Entry(cmd[c].value, loc[c].expires_at))
                    ELSE map
          /\ lastSet' = IF ok
                        THEN MapInsert(lastSet, key,
                                       Written(cmd[c].value, cmd[c].expiration_mode, loc[c].now))
                        ELSE lastSet
          /\ res' = [res EXCEPT ![c] = IF ok THEN "Replaced" ELSE "ConditionNotMet"]
          /\ prev' = [prev EXCEPT ![c] = IF ok THEN previous ELSE None]
          /\ Leave(c, TRUE, SetReply(ok, previous, cmd[c].return_mode))
    /\ UNCHANGED <<clock, ticks, inp, afterUnknown, cvars>>

\* One turn of the loop of Socket::exists: as_str and has_entry of the next
\* key; a key that is no text ends the handler with the error.
ExistsKey(c) ==
    /\ pc[c] = "locked"
    /\ cmd[c].op = "Exists"
    /\ loc[c].i <= Len(cmd[c].keys)
    /\ LET v == cmd[c].keys[loc[c].i]
       IN IF IsText(v)
          THEN /\ loc' = [loc EXCEPT ![c] =
                            [at |-> "loop", i |-> loc[c].i + 1, t0 |-> loc[c].t0,
                             count |-> loc[c].count + (IF has_entry(map, v.s, clock) THEN 1 ELSE 0)]]
               /\ UNCHANGED <<lock, pc, cmd, out, ser, exit>>
          ELSE Leave(c, FALSE, Nil)
    /\ UNCHANGED <<map, clock, ticks, res, prev, inp, afterUnknown, lastSet, cvars>>

\* The end of Socket::exists: the count is the reply.
ExistsReply(c) ==
    /\ pc[c] = "locked"
    /\ cmd[c].op = "Exists"
    /\ loc[c].i > Len(cmd[c].keys)
    /\ Leave(c, TRUE, Integer(loc[c].count))
    /\ UNCHANGED <<map, clock, ticks, res, prev, inp, afterUnknown, lastSet, cvars>>

\* Whether these bytes are an "unknown command" error reply.
IsUnknownReply(bytes) ==
    /\ Len(bytes) > Len(MSG_UNKNOWN)
    /\ SubSeq(bytes, 1, 1 + Len(MSG_UNKNOWN)) = <<"-">> \o MSG_UNKNOWN

\* write_all succeeds and run loops: output_buffer is cleared.
Write(c) ==
    /\ pc[c] = "write"
    /\ pc' = [pc EXCEPT ![c] = "read"]
    /\ out' = [out EXCEPT ![c] = ClearedBuffer(out[c])]
    /\ inp' = [inp EXCEPT ![c] = <<>>]
    /\ afterUnknown' = [afterUnknown EXCEPT ![c] = IsUnknownReply(out[c])]
    /\ UNCHANGED <<map, lock, clock, ticks, cmd, loc, res, prev, ser, exit, lastSet, cvars>>

\* write_all fails: run returns the error and the task ends.
WriteFail(c) ==
    /\ pc[c] = "write"
    /\ pc' = [pc EXCEPT ![c] = "closed"]
    /\ exit' = [exit EXCEPT ![c] = "io"]
    /\ UNCHANGED <<map, lock, clock, ticks, cmd, loc, out, res, prev, ser, inp, afterUnknown, lastSet, cvars>>

Next ==
    \/ Tick
    \/ \E c \in Conns : Accept(c)
    \/ \E c \in Conns : Recv(c, Inputs)
    \/ \E c \in Conns : RecvLock(c, Inputs)
    \/ \E c \in Conns : Fetch(c)
    \/ \E c \in Conns : SetExpiry(c)
    \/ \E c \in Conns : SetExists(c)
    \/ \E c \in Conns : SetInsert(c)
    \/ \E c \in Conns : ExistsKey(c)
    \/ \E c \in Conns : ExistsReply(c)
    \/ \E c \in Conns : Write(c)
    \/ \E c \in Conns : WriteFail(c)

Spec == Init /\ [][Next]_vars

(* ------------------------------------------------------------------ *)
(* The NX race: connections that each send one SET a <c> NX [GET]       *)
(* ------------------------------------------------------------------ *)

\* The entry SET a v PX 1 at time 0 leaves, and what lastSet keeps of it.
StaleEntry == Entry(Vv, Some(1))
StaleWritten == Written(Vv, [kind |-> "ExpiryMilliseconds", n |-> 1], 0)

\* The racers' connections are accepted and wait in read; the key has no
\* entry (the store is new, at time 0), or an entry that has expired (at
\* time 1, one millisecond after SET a v PX 1).
RaceInit ==
    /\ \/ map = EmptyMap /\ lastSet = EmptyMap /\ clock = 0
       \/ map = MapInsert(EmptyMap, Ka, StaleEntry)
          /\ lastSet = MapInsert(EmptyMap, Ka, StaleWritten) /\ clock = 1
    /\ lock = 0
    /\ ticks = 0
    /\ pc = [c \in Racers |-> "read"]
    /\ cmd = [c \in Racers |-> NoCmd]
    /\ loc = [c \in Racers |-> NoLoc]
    /\ out = [c \in Racers |-> <<>>]
    /\ res = [c \in Racers |-> "none"]
    /\ prev = [c \in Racers |-> None]
    /\ ser = [c \in Racers |-> <<>>]
    /\ exit = [c \in Racers |-> "none"]
    /\ inp = [c \in Racers |-> <<>>]
    /\ afterUnknown = [c \in Racers |-> FALSE]
    /\ CodecIdle

\* A racer sends its request once: it has no result of an insert yet.
RaceRecv(c) == res[c] = "none" /\ RecvLock(c, RaceInputs(c))

NextRace ==
    \/ Tick
    \/ \E c \in Racers : RaceRecv(c)
    \/ \E c \in Racers : SetExpiry(c)
    \/ \E c \in Racers : SetExists(c)
    \/ \E c \in Racers : SetInsert(c)
    \/ \E c \in Racers : Write(c)
    \/ \E c \in Racers : WriteFail(c)

SpecRace == RaceInit /\ [][NextRace]_vars

(* ------------------------------------------------------------------ *)
(* The codec: a value is written out by Display and read by the decoder *)
(* ------------------------------------------------------------------ *)

\* Values without line breaks in their text: the leaves, and arrays of at
\* most two elements, one of them a leaf, nested to depth d.
Leaves ==
    { Nil, SimpleString(<<"o", "k">>), BulkString(<<>>), BulkString(<<"a", "b">>),
      Error(<<"e">>), Integer(-1), Integer(12) }

RECURSIVE Trees(_)
Trees(d) ==
    IF d = 0 THEN Leaves
    ELSE LET sub == Trees(d - 1)
         IN Leaves \cup {Array(<<>>)} \cup {Array(<<x>>) : x \in sub}
                   \cup {Array(<<x, y>>) : x \in sub, y \in Leaves}
                   \cup {Array(<<x, y>>) : x \in Leaves, y \in sub}

CodecInit ==
    /\ StoreInit(Conns)
    /\ cphase = "value"
    /\ cval \in Trees(MaxDepth)
    /\ cwire = <<>>
    /\ cdec = Fail("eof")

\* write!(buffer, "{}", value): the value's bytes.
Serialize ==
    /\ cphase = "value"
    /\ cwire' = Fmt(cval)
    /\ cphase' = "wire"
    /\ UNCHANGED <<map, lock, clock, ticks, pc, cmd, loc, out, res, prev, ser, exit, inp, afterUnknown,
                   lastSet, cval, cdec>>

\* Socket::parse_value on these bytes, followed by the end of the stream.
Decode ==
    /\ cphase = "wire"
    /\ \E oc \in BOOLEAN : cdec' = parse_value(cwire, oc)
    /\ cphase' = "decoded"
    /\ UNCHANGED <<map, lock, clock, ticks, pc, cmd, loc, out, res, prev, ser, exit, inp, afterUnknown,
                   lastSet, cval, cwire>>

NextCodec == Serialize \/ Decode

SpecCodec == CodecInit /\ [][NextCodec]_vars

(* ------------------------------------------------------------------ *)
(* Two connections on one store                                         *)
(* ------------------------------------------------------------------ *)

Pair == {1, 2}

\* What each of the two connections may read: commands that reach the
\* store, with keys that are text and keys that are not, a command that
\* does not, and streams that end the handler in parse_command.
PairInputs ==
    { WireOf(Req(T_GET, <<B(Ka)>>)), WireOf(Req(T_GET, <<Nil>>)),
      WireOf(Req(T_SET, <<B(Ka), Vv, B(T_PX), B(<<"1">>)>>)),
      WireOf(Req(T_SET, <<B(Ka), Vw>>)), WireOf(Req(T_SET, <<Nil, Vv>>)),
      WireOf(Req(T_EXISTS, <<B(Ka), Nil>>)), WireOf(Req(T_EXISTS, <<B(Kb)>>)),
      WireOf(Req(T_PING, <<>>)),
      <<":", "1">> \o CRLF, <<"*", "x">> \o CRLF, <<>> }

PairInit == StoreInit(Pair) /\ CodecIdle

NextPair ==
    \/ \E c \in Pair : Accept(c)
    \/ Tick
    \/ \E c \in Pair : Recv(c, PairInputs)
    \/ \E c \in Pair : RecvLock(c, PairInputs)
    \/ \E c \in Pair : Fetch(c)
    \/ \E c \in Pair : SetExpiry(c)
    \/ \E c \in Pair : SetExists(c)
    \/ \E c \in Pair : SetInsert(c)
    \/ \E c \in Pair : ExistsKey(c)
    \/ \E c \in Pair : ExistsReply(c)
    \/ \E c \in Pair : Write(c)
    \/ \E c \in Pair : WriteFail(c)

SpecPair == PairInit /\ [][NextPair]_vars

(* ------------------------------------------------------------------ *)
(* The handler in main.rs                                               *)
(* ------------------------------------------------------------------ *)

\* main.rs declares `mod store` only and has a Command, a Value and a
\* Socket of its own; main spawns that Socket's run.  Its decoder, its
\* Display and its fetch read as the ones of socket.rs and value.rs do; its
\* SET takes a key and a value and nothing else, and its run has no
\* output_buffer.clear().

\* How long output_buffer may be for a connection to read another command.
MaxBuffer == 10

MSG_MAIN_WRONG_ARGS ==
    <<"E", "R", "R", " ", "w", "r", "o", "n", "g", " ", "n", "u", "m", "b", "e", "r", " ", "o", "f", " ", "a", "r", "g", "u", "m", "e", "n", "t", "s", " ", "f", "o", "r", " ", "c", "o", "m", "m", "a", "n", "d">>

\* Command::Set(key, value) of main.rs.
MainCmdSet(k, v) == [op |-> "Set", key |-> k, value |-> v]

\* impl TryFrom<Value> for Command in main.rs; "panic" is values[0] of an
\* empty array.
MainTryFrom(value) ==
    IF value.t # "Array" THEN [st |-> "err", cmd |-> None]
    ELSE IF value.a = <<>> THEN [st |-> "panic", cmd |-> None]
    ELSE IF ~IsText(value.a[1]) THEN [st |-> "err", cmd |-> None]
    ELSE LET name == value.a[1].s
             count == Len(value.a)
             command == CASE name \in {T_PING, T_ping} ->
                               (IF count = 1 THEN Some(CmdPing(None))
                                ELSE IF count = 2 THEN Some(CmdPing(Some(value.a[2])))
                                ELSE None)
                          [] name \in {T_ECHO, T_echo} ->
                               (IF count = 2 THEN Some(CmdEcho(value.a[2])) ELSE None)
                          [] name \in {T_GET, T_get} ->
                               (IF count = 2 THEN Some(CmdGet(value.a[2])) ELSE None)
                          [] name \in {T_SET, T_set} ->
                               (IF count = 3 THEN Some(MainCmdSet(value.a[2], value.a[3]))
                                ELSE None)
                          [] OTHER -> Some(UnknownCommand(name))
         IN IF command # None THEN [st |-> "ok", cmd |-> command]
            ELSE [st |-> "ok", cmd |-> Some(CmdError(Error(MSG_MAIN_WRONG_ARGS)))]

\* Socket::parse_command of main.rs.
main_parse_command(bytes, oc) ==
    LET d == parse_value(bytes, oc)
    IN IF d.st # "ok" THEN [st |-> d.st, cmd |-> None]
       ELSE MainTryFrom(d.v)

\* What a connection to this handler may read in one turn of its loop.
MainInputs ==
    { WireOf(Req(T_PING, <<>>)), WireOf(Req(T_ECHO, <<Vv>>)),
      WireOf(Req(T_GET, <<B(Ka)>>)), WireOf(Req(T_GET, <<Nil>>)),
      WireOf(Req(T_SET, <<B(Ka), Vv>>)), WireOf(Req(T_SET, <<B(Ka), Vw>>)),
      WireOf(Req(T_SET, <<Nil, Vv>>)), WireOf(Req(T_SET, <<B(Ka), Vv, B(T_NX)>>)),
      WireOf(Req(<<"f", "o">>, <<>>)), WireOf(Array(<<>>)),
      <<":", "1">> \o CRLF, <<>> }

MainParseTable ==
    {[bytes |-> w, oc |-> oc, o |-> main_parse_command(w, oc)] :
        w \in MainInputs, oc \in BOOLEAN}

\* run of main.rs, from the top of the loop to the write, for an input that
\* needs no store: the reply goes behind what output_buffer holds.
MainRecv(c) ==
    /\ pc[c] = "read"
    /\ \E e \in MainParseTable :
         LET o == e.o
         IN /\ o.st = "ok" => o.cmd[1].op \in {"Ping", "Echo", "Error"} \/ SetKeyFails(o.cmd[1])
            /\ inp' = [inp EXCEPT ![c] = e.bytes]
            /\ IF o.st = "ok" /\ ~SetKeyFails(o.cmd[1])
               THEN /\ Len(out[c]) <= MaxBuffer
                    /\ out' = [out EXCEPT ![c] = Appended(out[c], Fmt(DirectReply(o.cmd[1])))]
                    /\ ser' = [ser EXCEPT ![c] = Fmt(DirectReply(o.cmd[1]))]
                    /\ pc' = [pc EXCEPT ![c] = "write"]
                    /\ exit' = exit
               ELSE /\ out' = out
                    /\ ser' = [ser EXCEPT ![c] = <<>>]
                    /\ pc' = [pc EXCEPT ![c] = "closed"]
                    /\ exit' = [exit EXCEPT ![c] = IF o.st = "ok" THEN "err" ELSE o.st]
    /\ UNCHANGED <<map, lock, clock, ticks, cmd, loc, res, prev, afterUnknown, lastSet, cvars>>

\* run of main.rs, from the top of the loop to cache.lock() in fetch or set.
MainRecvLock(c) ==
    /\ pc[c] = "read"
    /\ CanLock(lock)
    /\ Len(out[c]) <= MaxBuffer
    /\ \E e \in MainParseTable :
         LET o == e.o
         IN /\ o.st = "ok"
            /\ o.cmd[1].op \in {"Get", "Set"}
            /\ ~SetKeyFails(o.cmd[1])
            /\ inp' = [inp EXCEPT ![c] = e.bytes]
            /\ cmd' = [cmd EXCEPT ![c] = o.cmd[1]]
    /\ lock' = c
    /\ pc' = [pc EXCEPT ![c] = "locked"]
    /\ ser' = [ser EXCEPT ![c] = <<>>]
    /\ UNCHANGED <<map, clock, ticks, loc, out, res, prev, exit, afterUnknown, lastSet, cvars>>

\* Socket::fetch of main.rs under the lock.
MainFetch(c) ==
    /\ pc[c] = "locked"
    /\ cmd[c].op = "Get"
    /\ LET got == IF IsText(cmd[c].key) THEN StoreGet(map, cmd[c].key.s, clock) ELSE None
       IN Leave(c, IsText(cmd[c].key), IF got # None THEN got[1] ELSE Nil)
    /\ UNCHANGED <<map, clock, ticks, res, prev, inp, afterUnknown, lastSet, cvars>>

\* Socket::set of main.rs under the lock: store.insert(key, value), and OK.
MainSet(c) ==
    /\ pc[c] = "locked"
    /\ cmd[c].op = "Set"
    /\ map' = MapInsert(map, cmd[c].key.s, EntryFrom(cmd[c].value))
    /\ Leave(c, TRUE, SimpleString(T_OK))
    /\ UNCHANGED <<clock, ticks, res, prev, inp, afterUnknown, lastSet, cvars>>

\* write_all succeeds and run of main.rs loops: output_buffer stays as it is.
MainWrite(c) ==
    /\ pc[c] = "write"
    /\ pc' = [pc EXCEPT ![c] = "read"]
    /\ inp' = [inp EXCEPT ![c] = <<>>]
    /\ afterUnknown' = [afterUnknown EXCEPT ![c] = IsUnknownReply(ser[c])]
    /\ UNCHANGED <<map, lock, clock, ticks, cmd, loc, out, res, prev, ser, exit, lastSet, cvars>>

MainInit == StoreInit(Conns) /\ CodecIdle

NextMain ==
    \/ \E c \in Conns : Accept(c)
    \/ \E c \in Conns : MainRecv(c)
    \/ \E c \in Conns : MainRecvLock(c)
    \/ \E c \in Conns : MainFetch(c)
    \/ \E c \in Conns : MainSet(c)
    \/ \E c \in Conns : MainWrite(c)
    \/ \E c \in Conns : WriteFail(c)

SpecMain == MainInit /\ [][NextMain]_vars

(* ------------------------------------------------------------------ *)
(* Properties                                                           *)
(* ------------------------------------------------------------------ *)

\* The racers whose SET has gone through Store::insert, and those of them
\* that were told Replaced.
RaceDone == {c \in Racers : res[c] # "none"}
RaceWinners == {c \in RaceDone : res[c] = "Replaced"}

\* C1: when several connections each send SET a <own value> NX for a key
\* with no live entry, exactly one of them gets Replaced, every other one
\* gets ConditionNotMet, and the key holds the winner's value, with no
\* expiry, from the winner's insert on.
C1_ExactlyOneNxWins ==
    RaceDone # {} =>
        /\ Cardinality(RaceWinners) = 1
        /\ \A c \in RaceDone \ RaceWinners : res[c] = "ConditionNotMet"
        /\ \A w \in RaceWinners : Ka \in DOMAIN map /\ map[Ka] = Entry(RaceValue(w), None)

\* Every racer is through, the clock has moved during the race, and the key
\* holds one racer's value.
C1_Witness ==
    /\ RaceDone = Racers
    /\ ticks > 0
    /\ Cardinality(RaceWinners) = 1
    /\ \E w \in Racers : Ka \in DOMAIN map /\ map[Ka].value = RaceValue(w)

\* The SetInsert step of racer c, whose request carried GET.
RaceGetStep(c) ==
    /\ pc[c] = "locked"
    /\ loc[c].at = "exists"
    /\ cmd[c].return_mode
    /\ pc'[c] = "write"

\* C2: in the NX race with GET, the winner is answered Nil (there was
\* nothing before) and every loser is answered with the value the winner
\* stored.
C2_LosersSeeWinner ==
    [][\A c \in Racers :
          RaceGetStep(c) =>
              /\ res'[c] = "Replaced" => out'[c] = Fmt(Nil)
              /\ res'[c] = "ConditionNotMet" =>
                    Ka \in DOMAIN map /\ out'[c] = Fmt(map[Ka].value)]_vars


\* The step of connection c that ends Socket::fetch with a reply, and the
\* key it asked for.
GetStep(c) ==
    /\ pc[c] = "locked"
    /\ cmd[c].op = "Get"
    /\ pc'[c] = "write"
GetKey(c) == cmd[c].key.s

\* The step of connection c that ends Store::insert and Socket::set.
SetStep(c) ==
    /\ pc[c] = "locked"
    /\ cmd[c].op = "Set"
    /\ loc[c].at = "exists"
    /\ pc'[c] = "write"

\* Key k has a live entry in map m at time t: an entry with no expiry or
\* with an expiry greater than t.
Live(m, k, t) ==
    /\ k \in DOMAIN m
    /\ m[k].expires_at = None \/ m[k].expires_at[1] > t

\* C3: after a SET of key k to v that names no expiry, and as long as no
\* later insert writes k, the entry of k has no expiry and GET k is
\* answered with v at whatever time it runs.
C3_PlainSetThenGet ==
    [][\A c \in Conns :
          GetStep(c) /\ GetKey(c) \in DOMAIN lastSet
                     /\ lastSet[GetKey(c)].mode.kind = "Normal" =>
              /\ map[GetKey(c)] = Entry(lastSet[GetKey(c)].value, None)
              /\ out'[c] = Fmt(lastSet[GetKey(c)].value)]_vars

\* GET a has been answered with w, the value of a plain SET, at a time by
\* which every expiry an earlier SET could have given the key has passed.
C3_Witness ==
    \E c \in Conns :
        /\ pc[c] = "write"
        /\ inp[c] = WireOf(Req(T_GET, <<B(Ka)>>))
        /\ out[c] = Fmt(Vw)
        /\ lastSet[Ka] = Written(Vw, ExpNormal, 0)
        /\ clock > 1000

\* C4: after SET k v EX n (PX n) whose insert read the clock at t, and as
\* long as no later insert writes k, GET k is answered with v while the
\* clock is below t + n * 1000 (t + n) and with Nil from that instant on.
C4_RelativeExpiry ==
    [][\A c \in Conns :
          GetStep(c) /\ GetKey(c) \in DOMAIN lastSet =>
              LET w == lastSet[GetKey(c)]
                  Reply(until) == IF clock < until THEN Fmt(w.value) ELSE Fmt(Nil)
              IN /\ w.mode.kind = "ExpirySeconds" =>
                        out'[c] = Reply(w.at + w.mode.n * 1000)
                 /\ w.mode.kind = "ExpiryMilliseconds" =>
                        out'[c] = Reply(w.at + w.mode.n)]_vars

\* GET a has been answered Nil at the very millisecond SET a v EX 1 set as
\* the expiry.
C4_Witness ==
    \E c \in Conns :
        /\ pc[c] = "write"
        /\ inp[c] = WireOf(Req(T_GET, <<B(Ka)>>))
        /\ out[c] = Fmt(Nil)
        /\ Ka \in DOMAIN lastSet
        /\ lastSet[Ka].mode.kind = "ExpirySeconds"
        /\ clock = lastSet[Ka].at + 1000

\* C5: a SET whose insertion condition fails (NX while the key has a live
\* entry, XX while it has no entry or an expired one) is told
\* ConditionNotMet and leaves the map as it was: entry and expiry of the
\* key are not touched.
C5_FailedConditionKeepsMap ==
    [][\A c \in Conns :
          SetStep(c) =>
              LET k == cmd[c].key.s
                  fails == \/ /\ cmd[c].insertion_mode = "IfNotExists"
                              /\ Live(map, k, clock)
                           \/ /\ cmd[c].insertion_mode = "IfExists"
                              /\ ~Live(map, k, loc[c].now)
              IN /\ fails => res'[c] = "ConditionNotMet"
                 /\ res'[c] = "ConditionNotMet" => map' = map]_vars

\* SET a ... NX has just failed on an entry that carries an expiry and is
\* still there.
C5_Witness ==
    \E c \in Conns :
        /\ pc[c] = "write"
        /\ res[c] = "ConditionNotMet"
        /\ Live(map, Ka, clock)
        /\ map[Ka].expires_at # None

\* C6: SET k v2 KEEPTTL on a key with a live entry replaces the value and
\* keeps the entry's expires_at, so the key stops being live at the same
\* instant as before.
C6_KeepTtlKeepsExpiry ==
    [][\A c \in Conns :
          SetStep(c) /\ cmd[c].expiration_mode.kind = "KeepTTL"
                     /\ cmd[c].insertion_mode = "Normal"
                     /\ Live(map, cmd[c].key.s, clock) =>
              /\ res'[c] = "Replaced"
              /\ map'[cmd[c].key.s] = Entry(cmd[c].value, map[cmd[c].key.s].expires_at)]_vars

\* SET a w KEEPTTL has replaced the value of an entry that expires later,
\* and the expiry is still on it.
C6_Witness ==
    \E c \in Conns :
        /\ pc[c] = "write"
        /\ res[c] = "Replaced"
        /\ inp[c] = WireOf(Req(T_SET, <<B(Ka), Vw, B(T_KEEPTTL)>>))
        /\ map[Ka].value = Vw
        /\ map[Ka].expires_at # None
        /\ Live(map, Ka, clock)


\* The positions of the key list whose key is live in map m at time t.
LivePositions(m, keys, t) == {i \in 1..Len(keys) : Live(m, keys[i].s, t)}

RecvStep(c) == pc[c] = "read" /\ pc'[c] # "read"

\* Names that are no command in any letter case.
UnknownNames == {<<"F", "O", "O">>, <<"f", "o">>}
UnknownSent == {e \in Sent : e.req.t = "Array" /\ e.req.a # <<>>
                             /\ e.req.a[1].t = "BulkString"
                             /\ e.req.a[1].s \in UnknownNames}

\* C8: a command with a name X that is no command is answered with the
\* error "unknown command 'X'" and touches nothing; the handler stays in
\* its loop (only a failed write ends it), and a PING that follows on the
\* connection is answered PONG.
C8_UnknownCommandThenPing ==
    [][\A c \in Conns :
          /\ \A e \in UnknownSent :
                /\ RecvStep(c) /\ inp'[c] = e.bytes =>
                      /\ pc'[c] = "write"
                      /\ out'[c] = <<"-">> \o MSG_UNKNOWN \o e.req.a[1].s \o <<"'">> \o CRLF
                      /\ map' = map
                /\ pc[c] = "write" /\ inp[c] = e.bytes /\ pc'[c] # "write" =>
                      pc'[c] = "read" \/ exit'[c] = "io"
          /\ RecvStep(c) /\ afterUnknown[c] /\ inp'[c] = WireOf(Req(T_PING, <<>>)) =>
                /\ pc'[c] = "write"
                /\ out'[c] = <<"+">> \o T_PONG \o CRLF]_vars

\* The connection that was last told "unknown command" has sent PING and
\* has PONG in its output buffer.
C8_Witness ==
    \E c \in Conns :
        /\ afterUnknown[c]
        /\ pc[c] = "write"
        /\ inp[c] = WireOf(Req(T_PING, <<>>))
        /\ out[c] = <<"+">> \o T_PONG \o CRLF

\* Whether a token is an integer: an optional sign and then digits only.
IsIntegerText(tok) ==
    /\ tok # <<>>
    /\ LET body == IF tok[1] \in {"-", "+"} THEN Tail(tok) ELSE tok
       IN body # <<>> /\ \A i \in 1..Len(body) : body[i] \in {Digits[d] : d \in 1..10}

\* Whether an integer token stands for a number that is zero or less.
NotPositive(tok) ==
    \/ tok[1] = "-"
    \/ \A i \in 1..Len(tok) : tok[i] \in {"0", "+"}

\* The first fault of a SET flag list read from position i on, with an
\* insertion flag (insSeen) or an expiration flag (expSeen) already read:
\* <<>> when there is none, else the message of the error.
RECURSIVE FirstFault(_, _, _, _)
FirstFault(toks, i, insSeen, expSeen) ==
    IF i > Len(toks) THEN <<>>
    ELSE IF toks[i] \in {T_NX, T_nx, T_XX, T_xx}
         THEN (IF insSeen THEN <<MSG_SYNTAX>> ELSE FirstFault(toks, i + 1, TRUE, expSeen))
    ELSE IF toks[i] \in {T_KEEPTTL, T_keepttl}
         THEN (IF expSeen THEN <<MSG_SYNTAX>> ELSE FirstFault(toks, i + 1, insSeen, TRUE))
    ELSE IF toks[i] \in {T_GET, T_get}
         THEN FirstFault(toks, i + 1, insSeen, expSeen)
    ELSE IF toks[i] \in {T_EX, T_PX, T_EXAT, T_PXAT, T_ex, T_px, T_exat, T_pxat}
         THEN (IF expSeen \/ i = Len(toks) THEN <<MSG_SYNTAX>>
               ELSE IF ~IsIntegerText(toks[i + 1]) THEN <<MSG_NOT_INTEGER>>
               ELSE IF NotPositive(toks[i + 1]) THEN <<MSG_INVALID_EXPIRE>>
               ELSE FirstFault(toks, i + 2, insSeen, TRUE))
    ELSE <<MSG_SYNTAX>>

\* The SET requests with a key, a value and flags that are all bulk strings
\* and whose flag list has a fault, each with the message of that fault.
RejectedSets ==
    {[bytes |-> e.bytes, msg |-> FirstFault([i \in 1..(Len(e.req.a) - 3) |-> e.req.a[i + 3].s], 1, FALSE, FALSE)[1]] :
        e \in {x \in Sent :
                  /\ x.req.t = "Array" /\ Len(x.req.a) >= 3
                  /\ \A i \in 1..Len(x.req.a) : x.req.a[i].t = "BulkString"
                  /\ x.req.a[1].s \in {T_SET, T_set}
                  /\ FirstFault([i \in 1..(Len(x.req.a) - 3) |-> x.req.a[i + 3].s],
                                1, FALSE, FALSE) # <<>>}}

\* C9: a SET rejected when it is parsed (an expiration flag with a token
\* that is no integer; an amount of zero or less; a malformed flag list) is
\* answered with exactly the error of its fault, takes no lock and leaves
\* the map as it was, and the connection stays open: only a failed write
\* ends the handler.
C9_RejectedSetRepliesError ==
    [][\A c \in Conns : \A r \in RejectedSets :
          /\ RecvStep(c) /\ inp'[c] = r.bytes =>
                /\ pc'[c] = "write"
                /\ out'[c] = <<"-">> \o r.msg \o CRLF
                /\ map' = map
                /\ lock' = lock
          /\ pc[c] = "write" /\ inp[c] = r.bytes /\ pc'[c] # "write" =>
                pc'[c] = "read" \/ exit'[c] = "io"]_vars

\* SET a v EX x has been answered "value is not an integer or out of
\* range" while a has an entry in the map.
C9_Witness ==
    \E c \in Conns :
        /\ pc[c] = "write"
        /\ inp[c] = WireOf(Req(T_SET, <<B(Ka), Vv, B(T_EX), B(<<"x">>)>>))
        /\ out[c] = <<"-">> \o MSG_NOT_INTEGER \o CRLF
        /\ Ka \in DOMAIN map

\* C10: every value tree, serialized and handed to the decoder, comes back
\* as one value equal to the original, with no byte of the serialization
\* left over.
C10_RoundTrip ==
    cphase = "decoded" => cdec = Ok(cval, <<>>)


\* The serializations of the elements of a, from position i on, one after
\* the other.
RECURSIVE ElementsInOrder(_, _)
ElementsInOrder(a, i) ==
    IF i > Len(a) THEN <<>> ELSE Fmt(a[i]) \o ElementsInOrder(a, i + 1)

\* C11: the serialization of an array of n elements is the header *n and a
\* line end, then the serializations of the elements in order, and no other
\* byte between or after them.
C11_ArrayIsHeaderThenElements ==
    cphase # "value" /\ cval.t = "Array" =>
        cwire = <<"*">> \o FmtNat(Len(cval.a)) \o CRLF \o ElementsInOrder(cval.a, 1)


\* C12: no connection holds the store lock while it reads from or writes
\* to the network: whoever holds the lock is inside fetch, set or exists,
\* and when every connection is reading, writing or closed the lock is
\* free, so a connection waiting on its socket keeps no other from the
\* store.
C12_NoLockAcrossIo ==
    /\ \A c \in Pair : lock = c => pc[c] = "locked"
    /\ (\A c \in Pair : pc[c] \in {"read", "write", "closed"}) => lock = 0

\* Connection 1 has its reply to a SET ready to be written while
\* connection 2 is inside the store with the lock.
C12_Witness ==
    /\ pc[1] = "write"
    /\ res[1] = "Replaced"
    /\ pc[2] = "locked"
    /\ lock = 2

\* C13: the step that ends a connection's handler, whatever the reason,
\* leaves the map as it is, leaves the lock free if that connection held it
\* and untouched otherwise, and changes nothing of any other connection;
\* a closed connection never holds the lock.
C13_TerminationLeavesStoreUsable ==
    [][\A c \in Pair :
          /\ pc'[c] = "closed" => lock' # c
          /\ pc[c] # "closed" /\ pc'[c] = "closed" =>
                /\ map' = map
                /\ lock' = IF lock = c THEN 0 ELSE lock
                /\ \A d \in Pair \ {c} :
                      /\ pc'[d] = pc[d] /\ cmd'[d] = cmd[d] /\ loc'[d] = loc[d]
                      /\ out'[d] = out[d] /\ exit'[d] = exit[d]]_vars

\* Connection 1 ended inside fetch on a key that is no text, and after
\* that connection 2 is inside the store with the lock, the key a having
\* an entry.
C13_Witness ==
    /\ pc[1] = "closed"
    /\ exit[1] = "err"
    /\ inp[1] = WireOf(Req(T_GET, <<Nil>>))
    /\ pc[2] = "locked"
    /\ lock = 2
    /\ Ka \in DOMAIN map


\* Streams with a value line whose first byte is none of * $ +: at the top
\* level, and as the element of an array.
UnknownTypeInputs == {<<":", "1">> \o CRLF, <<"*", "1">> \o CRLF \o <<"-", "e">> \o CRLF}

\* C14: a value line whose first byte is none of * $ + ends the handler
\* like every other decode error: run returns an error, and no reply has
\* been written.
C14_UnknownTypeByteIsDecodeError ==
    \A c \in Conns :
        inp[c] \in UnknownTypeInputs =>
            pc[c] = "closed" /\ exit[c] = "err" /\ out[c] = <<>>


\* Requests in some letter case, each with the bytes of its upper-case
\* form.
CaseVariants ==
    { [variant |-> WireOf(Req(<<"P", "i", "n", "g">>, <<>>)),
       upper |-> WireOf(Req(T_PING, <<>>))],
      [variant |-> WireOf(Req(<<"s", "E", "t">>, <<B(Ka), Vw>>)),
       upper |-> WireOf(Req(T_SET, <<B(Ka), Vw>>))],
      [variant |-> WireOf(Req(T_SET, <<B(Ka), Vw, B(T_keepttl)>>)),
       upper |-> WireOf(Req(T_SET, <<B(Ka), Vw, B(T_KEEPTTL)>>))],
      [variant |-> WireOf(Req(T_SET, <<B(Ka), Vv, B(T_get)>>)),
       upper |-> WireOf(Req(T_SET, <<B(Ka), Vv, B(T_GET)>>))],
      [variant |-> WireOf(Req(T_SET, <<B(Ka), Vv, B(<<"N", "x">>)>>)),
       upper |-> WireOf(Req(T_SET, <<B(Ka), Vv, B(T_NX)>>))] }

\* C15: a request whose command name or SET flag is written in another
\* letter case is handled as its upper-case form is: it parses to the same
\* command, which is dispatched to the store or answered directly.
C15_LetterCaseIgnored ==
    [][\A c \in Conns : \A v \in CaseVariants :
          RecvStep(c) /\ inp'[c] = v.variant =>
              \E e \in ParseTable :
                  /\ e.bytes = v.upper
                  /\ e.o.st = "ok"
                  /\ IF e.o.cmd[1].op \in {"Get", "Set", "Exists"}
                     THEN pc'[c] = "locked" /\ cmd'[c] = e.o.cmd[1]
                     ELSE pc'[c] = "write" /\ out'[c] = Fmt(DirectReply(e.o.cmd[1]))]_vars


\* C16: SET k v KEEPTTL (no insertion flag) stores the new entry with the
\* previous entry's expiry only when that entry is still live; when the key
\* has no entry, or one whose expiry has passed, the new entry has no
\* expiry.
C16_KeepTtlDropsPassedExpiry ==
    [][\A c \in Conns :
          SetStep(c) /\ cmd[c].expiration_mode.kind = "KeepTTL"
                     /\ cmd[c].insertion_mode = "Normal" =>
              LET k == cmd[c].key.s
              IN /\ ~Live(map, k, loc[c].now) => map'[k] = Entry(cmd[c].value, None)
                 /\ Live(map, k, clock) =>
                        map'[k] = Entry(cmd[c].value, map[k].expires_at)]_vars


\* The bytes of the replies Nil and OK.
NilBytes == <<"$", "-", "1">> \o CRLF
OkBytes == <<"+", "O", "K">> \o CRLF

\* C17: the reply to a SET follows from the result of the insert and the
\* GET flag: ConditionNotMet is answered Nil with or without GET; Replaced
\* without GET is answered OK; Replaced with GET is answered with the
\* previous value when the entry replaced was live, and Nil otherwise.
C17_SetReplyTable ==
    [][\A c \in Conns :
          SetStep(c) =>
              out'[c] = CASE res'[c] = "ConditionNotMet" -> NilBytes
                          [] res'[c] = "Replaced" /\ ~cmd[c].return_mode -> OkBytes
                          [] res'[c] = "Replaced" /\ cmd[c].return_mode ->
                                 IF Live(map, cmd[c].key.s, clock)
                                 THEN Fmt(map[cmd[c].key.s].value) ELSE NilBytes]_vars

\* SET a w GET has replaced the live value v and is answered with v.
C17_Witness ==
    \E c \in Conns :
        /\ pc[c] = "write"
        /\ inp[c] = WireOf(Req(T_SET, <<B(Ka), Vw, B(T_GET)>>))
        /\ res[c] = "Replaced"
        /\ prev[c] = Some(Vv)
        /\ out[c] = Fmt(Vv)

\* C18: an insert that proceeds returns the previous value exactly when the
\* key had a live entry at that time, and none when it had no entry or an
\* expired one; neither GET nor SET ... GET is answered with the value of
\* an expired entry.
C18_ExpiredValueNeverReturned ==
    [][\A c \in Conns :
          /\ SetStep(c) /\ res'[c] = "Replaced" =>
                /\ prev'[c] = IF Live(map, cmd[c].key.s, clock)
                              THEN Some(map[cmd[c].key.s].value) ELSE None
                /\ cmd[c].return_mode /\ ~Live(map, cmd[c].key.s, clock) =>
                      out'[c] = NilBytes
          /\ GetStep(c) /\ ~Live(map, GetKey(c), clock) => out'[c] = NilBytes]_vars

\* SET a w XX GET found the entry of a live, replaced it after the entry's
\* expiry had passed, and is answered Nil.
C18_Witness ==
    \E c \in Conns :
        /\ pc[c] = "write"
        /\ inp[c] = WireOf(Req(T_SET, <<B(Ka), Vw, B(T_XX), B(T_GET)>>))
        /\ res[c] = "Replaced"
        /\ prev[c] = None
        /\ out[c] = NilBytes

\* C19: the insertion flag is judged on liveness, not on presence in the
\* map.  No flag: the entry is replaced.  NX: replaced when the key has no
\* live entry, also over an expired one, and not when it has a live one.
\* XX: replaced when the key has a live entry and not when it has none or
\* an expired one.  (An entry that expires while the insert runs is live at
\* its start and not at its end: "live" is taken at the end and "not live"
\* at the start, which holds of every instant the insert reads the clock.)
C19_InsertGatesOnLiveness ==
    [][\A c \in Conns :
          SetStep(c) =>
              LET k == cmd[c].key.s
                  live == Live(map, k, clock)
                  dead == ~Live(map, k, loc[c].now)
                  Replaces == /\ res'[c] = "Replaced"
                              /\ k \in DOMAIN map' /\ map'[k].value = cmd[c].value
                  Refuses == res'[c] = "ConditionNotMet" /\ map' = map
              IN /\ cmd[c].insertion_mode = "Normal" => Replaces
                 /\ cmd[c].insertion_mode = "IfNotExists" =>
                        (dead => Replaces) /\ (live => Refuses)
                 /\ cmd[c].insertion_mode = "IfExists" =>
                        (live => Replaces) /\ (dead => Refuses)]_vars

\* SET a v XX has been refused although the map has an entry for a: the
\* entry has expired.
C19_Witness ==
    \E c \in Conns :
        /\ pc[c] = "write"
        /\ inp[c] = WireOf(Req(T_SET, <<B(Ka), Vv, B(T_XX)>>))
        /\ res[c] = "ConditionNotMet"
        /\ Ka \in DOMAIN map
        /\ ~Live(map, Ka, clock)

\* C20: no key ever leaves the map, and the entry of a key changes (or
\* appears) only in the step of an insert to that key that proceeds; GET
\* and EXISTS, also of expired entries, and every other step leave the map
\* as it is.
C20_OnlyInsertChangesMap ==
    [][/\ DOMAIN map \subseteq DOMAIN map'
       /\ \A k \in DOMAIN map' :
             k \notin DOMAIN map \/ map'[k] # map[k] =>
                 \E c \in Conns :
                     SetStep(c) /\ cmd[c].key.s = k /\ res'[c] = "Replaced"]_vars

\* GET a has been answered Nil for an expired entry, the entry of b was
\* written after that of a, and both are still in the map.
C20_Witness ==
    \E c \in Conns :
        /\ pc[c] = "write"
        /\ inp[c] = WireOf(Req(T_GET, <<B(Ka)>>))
        /\ out[c] = NilBytes
        /\ Ka \in DOMAIN map /\ ~Live(map, Ka, clock)
        /\ Kb \in DOMAIN map


\* A text with its letters a-z turned to upper case.
LowerLetters == <<"a", "b", "c", "d", "e", "f", "g", "h", "i", "j", "k", "l", "m",
                  "n", "o", "p", "q", "r", "s", "t", "u", "v", "w", "x", "y", "z">>
UpperLetters == <<"A", "B", "C", "D", "E", "F", "G", "H", "I", "J", "K", "L", "M",
                  "N", "O", "P", "Q", "R", "S", "T", "U", "V", "W", "X", "Y", "Z">>
UpperText(text) ==
    [i \in 1..Len(text) |->
        IF \E j \in 1..26 : LowerLetters[j] = text[i]
        THEN UpperLetters[CHOOSE j \in 1..26 : LowerLetters[j] = text[i]]
        ELSE text[i]]

\* The flags of SET, in upper case.
FlagNames == {T_NX, T_XX, T_EX, T_PX, T_EXAT, T_PXAT, T_KEEPTTL, T_GET}

\* Where a left-to-right scan of SET's flags stops, counted from argument
\* i with an insertion flag (insSeen) or an expiration flag (expSeen)
\* already read: "none" at the end of a list without fault, "repeat" at a
\* second insertion or expiration flag, "unknown" at an argument that is no
\* bulk string or no flag, "amount" at an expiration flag without a
\* positive integer behind it, "case" at a flag that is not in upper case.
RECURSIVE ScanStop(_, _, _, _)
ScanStop(flags, i, insSeen, expSeen) ==
    IF i > Len(flags) THEN "none"
    ELSE IF flags[i].t # "BulkString" THEN "unknown"
    ELSE IF flags[i].s \notin FlagNames
         THEN (IF UpperText(flags[i].s) \in FlagNames THEN "case" ELSE "unknown")
    ELSE IF flags[i].s \in {T_NX, T_XX}
         THEN (IF insSeen THEN "repeat" ELSE ScanStop(flags, i + 1, TRUE, expSeen))
    ELSE IF flags[i].s = T_KEEPTTL
         THEN (IF expSeen THEN "repeat" ELSE ScanStop(flags, i + 1, insSeen, TRUE))
    ELSE IF flags[i].s = T_GET
         THEN ScanStop(flags, i + 1, insSeen, expSeen)
    ELSE IF expSeen THEN "repeat"
    ELSE IF i = Len(flags) THEN "amount"
    ELSE IF flags[i + 1].t # "BulkString" THEN "unknown"
    ELSE IF ~IsIntegerText(flags[i + 1].s) \/ NotPositive(flags[i + 1].s) THEN "amount"
    ELSE ScanStop(flags, i + 2, insSeen, TRUE)

\* The SET requests with a key and a value, each with its flags and with
\* where the scan of the flags stops.
ScannedSets ==
    {[bytes |-> e.bytes, key |-> e.req.a[2], value |-> e.req.a[3],
      flags |-> SubSeq(e.req.a, 4, Len(e.req.a)),
      stop |-> ScanStop(SubSeq(e.req.a, 4, Len(e.req.a)), 1, FALSE, FALSE)] :
        e \in {x \in Sent : /\ x.req.t = "Array" /\ Len(x.req.a) >= 3
                            /\ x.req.a[1] \in {B(T_SET), B(T_set)}
                            /\ IsText(x.req.a[2])}}

\* Whether text tok is among the flags.
HasFlag(flags, tok) == \E i \in 1..Len(flags) : flags[i] = B(tok)

\* C21: a SET whose flag scan comes to a second insertion flag or a second
\* expiration flag is answered "syntax error" and becomes no Set: no lock
\* is taken and the map stays as it was.  A SET whose flag list has no fault
\* becomes a Set with the one insertion choice and the one kind of expiry
\* its flags name, and with return_mode set exactly when GET is among the
\* flags, however often and wherever.
C21_FlagsDecidedOnce ==
    [][\A c \in Conns : \A r \in ScannedSets :
          RecvStep(c) /\ inp'[c] = r.bytes =>
              /\ r.stop = "repeat" =>
                    /\ pc'[c] = "write"
                    /\ out'[c] = <<"-">> \o MSG_SYNTAX \o CRLF
                    /\ lock' = lock /\ map' = map
              /\ r.stop = "none" =>
                    /\ pc'[c] = "locked"
                    /\ cmd'[c].op = "Set"
                    /\ cmd'[c].key = r.key /\ cmd'[c].value = r.value
                    /\ cmd'[c].insertion_mode =
                           (IF HasFlag(r.flags, T_NX) THEN "IfNotExists"
                            ELSE IF HasFlag(r.flags, T_XX) THEN "IfExists" ELSE "Normal")
                    /\ cmd'[c].expiration_mode.kind =
                           (IF HasFlag(r.flags, T_KEEPTTL) THEN "KeepTTL"
                            ELSE IF HasFlag(r.flags, T_EX) THEN "ExpirySeconds"
                            ELSE IF HasFlag(r.flags, T_PX) THEN "ExpiryMilliseconds"
                            ELSE IF HasFlag(r.flags, T_EXAT) THEN "ExpiryUTCSeconds"
                            ELSE IF HasFlag(r.flags, T_PXAT) THEN "ExpiryUTCMilliseconds"
                            ELSE "Normal")
                    /\ cmd'[c].return_mode = HasFlag(r.flags, T_GET)]_vars

\* SET a v KEEPTTL EX 1 has been answered "syntax error" while a has an
\* entry, and nobody holds the lock.
C21_Witness ==
    \E c \in Conns :
        /\ pc[c] = "write"
        /\ inp[c] = WireOf(Req(T_SET, <<B(Ka), Vv, B(T_KEEPTTL), B(T_EX), B(<<"1">>)>>))
        /\ out[c] = <<"-">> \o MSG_SYNTAX \o CRLF
        /\ Ka \in DOMAIN map
        /\ lock = 0


\* C22: a SET whose flag scan comes to an argument that is no flag, be it
\* a bulk string that names none or an argument that is no bulk string at
\* all, is answered "syntax error" and becomes no Set: no lock is taken and
\* the map stays as it was.
C22_EveryArgumentExamined ==
    [][\A c \in Conns : \A r \in ScannedSets :
          RecvStep(c) /\ inp'[c] = r.bytes /\ r.stop = "unknown" =>
              /\ pc'[c] = "write"
              /\ out'[c] = <<"-">> \o MSG_SYNTAX \o CRLF
              /\ lock' = lock /\ map' = map]_vars


\* Whether a request is an array whose first element is text.
NamesCommand(req) == req.t = "Array" /\ req.a # <<>> /\ IsText(req.a[1])

\* C23: parsing a decoded value into a command is total.  A value that is
\* no array, an empty array or an array whose first element is no text
\* ends the handler with an error, without a reply and without a panic;
\* every array whose first element is text parses to a command, and
\* whatever ends the handler then is an error, never a panic.
C23_ParseIsTotal ==
    [][\A c \in Conns : \A e \in Sent :
          RecvStep(c) /\ inp'[c] = e.bytes =>
              IF NamesCommand(e.req)
              THEN /\ \A p \in ParseTable : p.bytes = e.bytes => p.o.st = "ok"
                   /\ pc'[c] = "closed" => exit'[c] = "err"
              ELSE /\ pc'[c] = "closed"
                   /\ exit'[c] = "err"
                   /\ out'[c] = out[c]]_vars


\* C24: on one connection every command that has its result is written
\* once before the next command is decoded, and what is written is exactly
\* the serialization of that result: the buffer handed to write_all holds
\* this reply and nothing of an earlier one, and it is empty when the next
\* command is read.
C24_WriteIsThisReplyOnly ==
    [][\A c \in Conns :
          /\ pc'[c] = "write" => out'[c] = ser'[c] /\ ser'[c] # <<>>
          /\ pc[c] = "write" /\ pc'[c] # "write" => pc'[c] = "read" \/ exit'[c] = "io"
          /\ RecvStep(c) => out[c] = <<>>]_vars


\* C25: an insert judges the liveness of the previous entry as of one
\* instant, whatever the clock does while it runs: an IfExists insert that
\* proceeds returns a previous value, so SET k v XX GET that succeeds is
\* not answered Nil, and an IfNotExists insert that proceeds returns none.
C25_OneInstantPerInsert ==
    [][\A c \in Conns :
          SetStep(c) /\ res'[c] = "Replaced" =>
              /\ cmd[c].insertion_mode = "IfExists" =>
                    /\ prev'[c] # None
                    /\ cmd[c].return_mode => out'[c] # NilBytes
              /\ cmd[c].insertion_mode = "IfNotExists" => prev'[c] = None]_vars

====
